---------------------------- MODULE Spec2Model ----------------------------
(***************************************************************************)
(* Model of the nyandere CSX patcher (src/src/cotopha.rs) and its compact  *)
(* archive codec (src/src/cotopha/compact.rs).                             *)
(*                                                                         *)
(* Bytes are integers 0..255, byte strings are sequences of bytes.  A Rust *)
(* String is modelled as the sequence of its Unicode code points.  Indices *)
(* into `functions` are 1-based here (Rust index i is i + 1).              *)
(* A Result is a record whose field err is "Ok" or the name of the Error   *)
(* variant.                                                                *)
(***************************************************************************)
EXTENDS Integers, Sequences, FiniteSets, TLC

(***************************************************************************)
(* Byte-string helpers                                                     *)
(***************************************************************************)
Take(s, n) == SubSeq(s, 1, n)

Drop(s, n) == SubSeq(s, n + 1, Len(s))

starts_with(s, p) == Len(p) <= Len(s) /\ Take(s, Len(p)) = p

RECURSIVE from_le_bytes(_)
from_le_bytes(b) == IF b = <<>> THEN 0 ELSE b[1] + 256 * from_le_bytes(Tail(b))

RECURSIVE to_le_bytes(_, _)
to_le_bytes(n, width) ==
    IF width = 0 THEN <<>> ELSE <<n % 256>> \o to_le_bytes(n \div 256, width - 1)

RECURSIVE Zeros(_)
Zeros(n) == IF n = 0 THEN <<>> ELSE <<0>> \o Zeros(n - 1)

RECURSIVE Repeat(_, _)
Repeat(x, n) == IF n = 0 THEN <<>> ELSE <<x>> \o Repeat(x, n - 1)

RECURSIVE Flatten(_)
Flatten(ss) == IF ss = <<>> THEN <<>> ELSE ss[1] \o Flatten(Tail(ss))

(***************************************************************************)
(* Constants of the CSX container                                          *)
(***************************************************************************)
MAGIC ==
    <<69, 110, 116, 105, 115, 26, 0, 0, 255, 255, 255, 255, 0, 0, 0, 0,
      67, 111, 116, 111, 112, 104, 97, 32, 73, 109, 97, 103, 101, 32,
      102, 105, 108, 101>> \o Zeros(22)

PROLOGUE ==
    <<64, 0, 73, 0, 110, 0, 105, 0, 116, 0, 105, 0, 97, 0, 108, 0,
      105, 0, 122, 0, 101, 0>>

\* The String "@Initialize" and the character '@'
Initialize == <<64, 73, 110, 105, 116, 105, 97, 108, 105, 122, 101>>

At == 64

TagImage == <<105, 109, 97, 103, 101, 32, 32, 32>>

TagFunction == <<102, 117, 110, 99, 116, 105, 111, 110>>

TagGlobal == <<103, 108, 111, 98, 97, 108, 32, 32>>

TagData == <<100, 97, 116, 97, 32, 32, 32, 32>>

TagConststr == <<99, 111, 110, 115, 116, 115, 116, 114>>

TagLinkinf == <<108, 105, 110, 107, 105, 110, 102, 32>>

SectionTags == {TagImage, TagFunction, TagGlobal, TagData, TagConststr, TagLinkinf}

\* Hash::default(), the hash of an image parsed in mod mode
HashDefault == 0

\* Stand-in for the SHA3-224 digest: a position-weighted checksum of the
\* input bytes, summed by halves to keep the evaluation shallow.
HashModulus == 65521

RECURSIVE sha3_224_range(_, _, _)
sha3_224_range(data, lo, hi) ==
    IF lo > hi THEN 0
    ELSE IF lo = hi THEN (lo * (data[lo] + 1)) % HashModulus
    ELSE LET mid == (lo + hi) \div 2
         IN  (sha3_224_range(data, lo, mid) + sha3_224_range(data, mid + 1, hi)) % HashModulus

sha3_224(data) == 1 + sha3_224_range(data, 1, Len(data))

(***************************************************************************)
(* Names                                                                   *)
(***************************************************************************)
\* extract_name: the 2*count name bytes of the name field at image[addr..].
\* A missing tag byte, a tag other than 0x04, a short count and a short
\* name all give BadAddress.
NameAtStart(start) ==
    IF Len(start) < 5 \/ start[1] # 4 THEN [err |-> "BadAddress", name |-> <<>>]
    ELSE IF 2 * from_le_bytes(SubSeq(start, 2, 5)) > Len(start) - 5
         THEN [err |-> "BadAddress", name |-> <<>>]
    ELSE [err |-> "Ok", name |-> SubSeq(start, 6, 5 + 2 * from_le_bytes(SubSeq(start, 2, 5)))]

extract_name(image, addr) ==
    IF addr > Len(image) THEN [err |-> "BadAddress", name |-> <<>>]
    ELSE NameAtStart(Drop(image, addr))

NameChecked(actual_name, name) ==
    IF actual_name.err # "Ok" THEN actual_name.err
    ELSE IF name # actual_name.name THEN "BadFunctionName"
    ELSE "Ok"

validate_name(image, addr, name) == NameChecked(extract_name(image, addr), name)

\* The 16-bit little-endian code units of a byte string (as_chunks::<2>,
\* a trailing odd byte is dropped).
RECURSIVE as_chunks(_)
as_chunks(bytes) ==
    IF Len(bytes) < 2 THEN <<>>
    ELSE <<bytes[1] + 256 * bytes[2]>> \o as_chunks(Drop(bytes, 2))

IsHighSurrogate(u) == u >= 55296 /\ u <= 56319

IsLowSurrogate(u) == u >= 56320 /\ u <= 57343

\* Decoding of code units to code points; "bad" on an unpaired surrogate.
RECURSIVE decode_utf16(_)
decode_utf16(units) ==
    IF units = <<>> THEN [bad |-> FALSE, text |-> <<>>]
    ELSE IF IsLowSurrogate(units[1]) THEN [bad |-> TRUE, text |-> <<>>]
    ELSE IF IsHighSurrogate(units[1])
         THEN IF Len(units) >= 2 /\ IsLowSurrogate(units[2])
              THEN LET r == decode_utf16(Drop(units, 2))
                       cp == 65536 + (units[1] - 55296) * 1024 + (units[2] - 56320)
                   IN  [bad |-> r.bad, text |-> <<cp>> \o r.text]
              ELSE [bad |-> TRUE, text |-> <<>>]
    ELSE LET r == decode_utf16(Tail(units))
         IN  [bad |-> r.bad, text |-> <<units[1]>> \o r.text]

Utf16Decoded(d, bytes) ==
    IF Len(bytes) % 2 # 0 \/ d.bad
    THEN [err |-> "DecodeUtf16", name |-> <<>>]
    ELSE [err |-> "Ok", name |-> d.text]

from_utf16(bytes) == Utf16Decoded(decode_utf16(as_chunks(bytes)), bytes)

\* cmp_utf16 as the predicate "lhs is ordered before or equal to rhs"
RECURSIVE units_le(_, _)
units_le(l, r) ==
    IF l = <<>> \/ r = <<>> THEN Len(l) <= Len(r)
    ELSE IF l[1] # r[1] THEN l[1] < r[1]
    ELSE units_le(Tail(l), Tail(r))

\* cmp_utf16 comparing single bytes instead of 16-bit units
cmp_utf16_bytes(lhs, rhs) == units_le(lhs, rhs)

cmp_utf16_le(lhs, rhs) == units_le(as_chunks(lhs), as_chunks(rhs))

NameStartsWithAt(name) == Len(name) > 0 /\ name[1] = At

(***************************************************************************)
(* The CSX image                                                           *)
(***************************************************************************)
EmptyMap == [n \in {} |-> 0]

CSX(base_hash, base_func, mods_used, global, data, functions) ==
    [base_hash |-> base_hash, base_func |-> base_func, mods_used |-> mods_used,
     global |-> global, data |-> data, functions |-> functions]

NoCSX == CSX(HashDefault, EmptyMap, {}, <<>>, <<>>, <<>>)

Function(name, bytecode) == [name |-> name, bytecode |-> bytecode]

Failed(e) == [err |-> e, csx |-> NoCSX]

(***************************************************************************)
(* CSX::new_                                                               *)
(***************************************************************************)
NoSections == [t \in SectionTags |-> <<>>]

\* The section loop: an 8-byte tag, a u64 length, then the contents
RECURSIVE ReadSections(_, _)
SectionBody(header, length, rest, secs) ==
    IF length > Len(rest) THEN [err |-> "UnexpectedEof", secs |-> secs]
    ELSE IF header \notin SectionTags THEN [err |-> "UnknownSection", secs |-> secs]
    ELSE ReadSections(Drop(rest, length), [secs EXCEPT ![header] = Take(rest, length)])

ReadSections(csx, secs) ==
    IF csx = <<>> THEN [err |-> "Ok", secs |-> secs]
    ELSE IF Len(csx) < 16 THEN [err |-> "UnexpectedEof", secs |-> secs]
    ELSE SectionBody(Take(csx, 8), from_le_bytes(SubSeq(csx, 9, 16)), Drop(csx, 16), secs)

\* The prologue loop: count addresses, each validated against PROLOGUE
RECURSIVE ReadPrologue(_, _, _, _)
PrologueEntry(v, addr, rest, image, count, addr_splits) ==
    IF v # "Ok" THEN [err |-> v, rest |-> rest, addr_splits |-> addr_splits]
    ELSE ReadPrologue(rest, image, count - 1, Append(addr_splits, addr))

PrologueAddr(addr, rest, image, count, addr_splits) ==
    PrologueEntry(validate_name(image, addr, PROLOGUE), addr, rest, image, count, addr_splits)

ReadPrologue(function, image, count, addr_splits) ==
    IF count = 0 THEN [err |-> "Ok", rest |-> function, addr_splits |-> addr_splits]
    ELSE IF Len(function) < 4
         THEN [err |-> "UnexpectedEof", rest |-> function, addr_splits |-> addr_splits]
    ELSE PrologueAddr(from_le_bytes(Take(function, 4)), Drop(function, 4),
                      image, count, addr_splits)

\* The named-function loop: count records {addr, len, name}
RECURSIVE ReadNamed(_, _, _, _)
NamedEntry(v, addr, name, rest, image, count, addr_splits) ==
    IF v # "Ok" THEN [err |-> v, rest |-> rest, addr_splits |-> addr_splits]
    ELSE IF starts_with(name, <<At, 0>>)
         THEN [err |-> "BadFunctionName", rest |-> rest, addr_splits |-> addr_splits]
    ELSE ReadNamed(rest, image, count - 1, Append(addr_splits, addr))

NamedRecord(addr, len, rest, image, count, addr_splits) ==
    IF 2 * len > Len(rest)
    THEN [err |-> "UnexpectedEof", rest |-> rest, addr_splits |-> addr_splits]
    ELSE NamedEntry(validate_name(image, addr, Take(rest, 2 * len)), addr,
                    Take(rest, 2 * len), Drop(rest, 2 * len), image, count, addr_splits)

ReadNamed(function, image, count, addr_splits) ==
    IF count = 0 THEN [err |-> "Ok", rest |-> function, addr_splits |-> addr_splits]
    ELSE IF Len(function) < 8
         THEN [err |-> "UnexpectedEof", rest |-> function, addr_splits |-> addr_splits]
    ELSE NamedRecord(from_le_bytes(Take(function, 4)), from_le_bytes(SubSeq(function, 5, 8)),
                     Drop(function, 8), image, count, addr_splits)

\* sort_unstable on u32 addresses
RECURSIVE InsertAsc(_, _)
InsertAsc(a, sorted) ==
    IF sorted = <<>> THEN <<a>>
    ELSE IF a <= sorted[1] THEN <<a>> \o sorted
    ELSE <<sorted[1]>> \o InsertAsc(a, Tail(sorted))

RECURSIVE sort_unstable(_)
sort_unstable(s) == IF s = <<>> THEN <<>> ELSE InsertAsc(s[1], sort_unstable(Tail(s)))

\* push the sentinel, replace each entry by the distance to its successor, pop
Distances(sorted) == [i \in 1..(Len(sorted) - 1) |-> sorted[i + 1] - sorted[i]]

SplitSizes(addr_splits, image_len) ==
    Distances(Append(sort_unstable(addr_splits), image_len))

\* The carving loop: the name is read at the cursor, then size bytes are
\* split off the front of what is left of the image.
RECURSIVE Carve(_, _, _)
CarveNamed(text, image, sizes, functions) ==
    IF text.err # "Ok" THEN [err |-> text.err, functions |-> <<>>]
    ELSE IF sizes[1] > Len(image) THEN [err |-> "UnexpectedEof", functions |-> <<>>]
    ELSE Carve(Drop(image, sizes[1]), Tail(sizes),
               Append(functions, Function(text.name, Take(image, sizes[1]))))

CarveAt(name, image, sizes, functions) ==
    IF name.err # "Ok" THEN [err |-> name.err, functions |-> <<>>]
    ELSE CarveNamed(from_utf16(name.name), image, sizes, functions)

Carve(image, sizes, functions) ==
    IF sizes = <<>> THEN [err |-> "Ok", functions |-> functions]
    ELSE CarveAt(extract_name(image, 0), image, sizes, functions)

\* enumerate().filter(non-@).map((name, i)).collect(): a later index wins
BaseFuncOf(functions) ==
    [n \in {functions[i].name : i \in {j \in DOMAIN functions :
                                       ~NameStartsWithAt(functions[j].name)}} |->
        CHOOSE i \in DOMAIN functions :
            /\ functions[i].name = n
            /\ \A j \in DOMAIN functions : functions[j].name = n => j <= i]

\* The function section: prologue list, epilogue count, named list
DirAfterNamed(named) ==
    [err |-> named.err,
     addr_splits |-> IF named.err = "Ok" THEN named.addr_splits ELSE <<>>]

DirAfterPrologue(pro, image) ==
    IF pro.err # "Ok" THEN [err |-> pro.err, addr_splits |-> <<>>]
    ELSE IF Len(pro.rest) < 4 THEN [err |-> "UnexpectedEof", addr_splits |-> <<>>]
    ELSE IF from_le_bytes(Take(pro.rest, 4)) # 0
         THEN [err |-> "EpilogueNotEmpty", addr_splits |-> <<>>]
    ELSE IF Len(pro.rest) < 8 THEN [err |-> "UnexpectedEof", addr_splits |-> <<>>]
    ELSE DirAfterNamed(ReadNamed(Drop(pro.rest, 8), image,
                                 from_le_bytes(SubSeq(pro.rest, 5, 8)), pro.addr_splits))

ReadDirectory(function, image) ==
    IF Len(function) < 4 THEN [err |-> "UnexpectedEof", addr_splits |-> <<>>]
    ELSE DirAfterPrologue(ReadPrologue(Drop(function, 4), image,
                                       from_le_bytes(Take(function, 4)), <<>>), image)

\* new_ after the carving loop: the base-function index and the image
NewImage(carved, secs, base_hash, base) ==
    IF carved.err # "Ok" THEN Failed(carved.err)
    ELSE [err |-> "Ok",
          csx |-> CSX(base_hash,
                      IF base THEN BaseFuncOf(carved.functions) ELSE EmptyMap,
                      {}, secs[TagGlobal], secs[TagData], carved.functions)]

\* new_ after the directory: the image split
NewSplit(dir, secs, base_hash, base) ==
    IF dir.err # "Ok" THEN Failed(dir.err)
    ELSE NewImage(Carve(secs[TagImage],
                        SplitSizes(dir.addr_splits, Len(secs[TagImage])), <<>>),
                  secs, base_hash, base)

\* new_ after the section loop: the section checks and the directory
NewSections(s, base_hash, base) ==
    IF s.err # "Ok" THEN Failed(s.err)
    ELSE IF s.secs[TagGlobal] = <<>> THEN Failed("BadSection")
    ELSE IF s.secs[TagData] = <<>> THEN Failed("BadSection")
    ELSE IF s.secs[TagConststr] # <<>> /\ s.secs[TagConststr] # Zeros(4)
         THEN Failed("BadSection")
    ELSE IF s.secs[TagLinkinf] # <<>> /\ s.secs[TagLinkinf] # Zeros(16) /\ base
         THEN Failed("BadSection")
    ELSE NewSplit(ReadDirectory(s.secs[TagFunction], s.secs[TagImage]),
                  s.secs, base_hash, base)

new_(csx, base) ==
    IF Len(csx) < 64 THEN Failed("UnexpectedEof")
    ELSE IF ~starts_with(csx, MAGIC) THEN Failed("BadMagic")
    ELSE NewSections(ReadSections(Drop(csx, 64), NoSections),
                     IF base THEN sha3_224(csx) ELSE HashDefault, base)

new(csx) == new_(csx, TRUE)

Stamped(mods, base_hash) ==
    IF mods.err # "Ok" THEN mods
    ELSE [err |-> "Ok", csx |-> [mods.csx EXCEPT !.base_hash = base_hash]]

new_mods(self, csx) == Stamped(new_(csx, FALSE), self.base_hash)

(***************************************************************************)
(* CSX::rebuild                                                            *)
(***************************************************************************)
\* Running address of functions[i]: the bytes emitted before it
RECURSIVE AddrOf(_, _)
AddrOf(functions, i) ==
    IF i = 1 THEN 0 ELSE AddrOf(functions, i - 1) + Len(functions[i - 1].bytecode)

\* sort_by(cmp_utf16) is a stable sort: an entry is inserted after the
\* entries that compare less than or equal to it.
RECURSIVE InsertByName(_, _)
InsertByName(e, sorted) ==
    IF sorted = <<>> THEN <<e>>
    ELSE IF cmp_utf16_le(sorted[1].name, e.name)
         THEN <<sorted[1]>> \o InsertByName(e, Tail(sorted))
         ELSE <<e>> \o sorted

RECURSIVE sort_by_name(_)
sort_by_name(s) ==
    IF s = <<>> THEN <<>>
    ELSE InsertByName(s[Len(s)], sort_by_name(Take(s, Len(s) - 1)))

\* Indices of the functions named "@Initialize" (prologue = TRUE) or of the
\* other functions (prologue = FALSE), in the order of the walk
RECURSIVE FnIndices(_, _, _)
FnIndices(functions, i, prologue) ==
    IF i > Len(functions) THEN <<>>
    ELSE (IF (functions[i].name = Initialize) = prologue THEN <<i>> ELSE <<>>)
         \o FnIndices(functions, i + 1, prologue)

\* the prologue vector: addresses of the functions named "@Initialize"
PrologueList(functions) ==
    LET idx == FnIndices(functions, 1, TRUE)
    IN  [k \in DOMAIN idx |-> AddrOf(functions, idx[k])]

\* the function vector before the sort: (addr, embedded name) of the others
NamedList(functions) ==
    LET idx == FnIndices(functions, 1, FALSE)
    IN  [k \in DOMAIN idx |->
            [addr |-> AddrOf(functions, idx[k]),
             name |-> extract_name(functions[idx[k]].bytecode, 0).name]]

\* extract_name(..).unwrap() panics for some function
RebuildPanics(self) ==
    \E i \in DOMAIN self.functions :
        /\ self.functions[i].name # Initialize
        /\ extract_name(self.functions[i].bytecode, 0).err # "Ok"

Section(tag, body) == tag \o to_le_bytes(Len(body), 8) \o body

DirectoryBytes(prologue, function) ==
    to_le_bytes(Len(prologue), 4)
    \o Flatten([k \in DOMAIN prologue |-> to_le_bytes(prologue[k], 4)])
    \o to_le_bytes(0, 4)
    \o to_le_bytes(Len(function), 4)
    \o Flatten([k \in DOMAIN function |->
                   to_le_bytes(function[k].addr, 4)
                   \o to_le_bytes(Len(function[k].name) \div 2, 4)
                   \o function[k].name])

rebuild(self) ==
    IF RebuildPanics(self) THEN [panic |-> TRUE, bytes |-> <<>>]
    ELSE LET body ==
                 Section(TagImage,
                         Flatten([i \in DOMAIN self.functions |-> self.functions[i].bytecode]))
                 \o Section(TagFunction,
                            DirectoryBytes(PrologueList(self.functions),
                                           sort_by_name(NamedList(self.functions))))
                 \o Section(TagGlobal, self.global)
                 \o Section(TagData, self.data)
                 \o Section(TagConststr, to_le_bytes(0, 4))
                 \o Section(TagLinkinf, Zeros(16))
         IN  [panic |-> FALSE, bytes |-> MAGIC \o to_le_bytes(Len(body), 8) \o body]

(***************************************************************************)
(* Merge algebra                                                           *)
(***************************************************************************)
\* validate_same_hash comparing the base's hash with itself
validate_same_hash_self(base, mods) ==
    IF base.base_hash # base.base_hash THEN "HashMismatch" ELSE "Ok"

validate_same_hash(base, mods) ==
    IF base.base_hash # mods.base_hash THEN "HashMismatch" ELSE "Ok"

validate_items_same_prefix(base, mods) ==
    IF ~starts_with(base.global, mods.global) THEN "IncompatibleGlobal"
    ELSE IF ~starts_with(base.data, mods.data) THEN "IncompatibleData"
    ELSE "Ok"

\* ConcatStep adopting the blobs of m whenever they are compatible, also
\* when they are the shorter ones
ConcatStepAdopt(mods, m) ==
    IF mods.base_hash # m.base_hash THEN Failed("HashMismatch")
    ELSE IF ~starts_with(m.global, mods.global) /\ ~starts_with(mods.global, m.global)
         THEN Failed("IncompatibleGlobal")
    ELSE IF ~starts_with(m.data, mods.data) /\ ~starts_with(mods.data, m.data)
         THEN Failed("IncompatibleData")
    ELSE [err |-> "Ok",
          csx |-> [mods EXCEPT !.global = m.global, !.data = m.data,
                               !.functions = mods.functions \o m.functions]]

\* One iteration of the loop of concat_mods for the next mod m
ConcatStep(mods, m) ==
    LET global == IF starts_with(m.global, mods.global) THEN m.global ELSE mods.global
        data == IF starts_with(m.data, mods.data) THEN m.data ELSE mods.data
    IN  IF validate_same_hash(mods, m) # "Ok" THEN Failed("HashMismatch")
        ELSE IF ~starts_with(m.global, mods.global) /\ ~starts_with(mods.global, m.global)
             THEN Failed("IncompatibleGlobal")
        ELSE IF ~starts_with(m.data, mods.data) /\ ~starts_with(mods.data, m.data)
             THEN Failed("IncompatibleData")
        ELSE [err |-> "Ok",
              csx |-> [mods EXCEPT !.global = global, !.data = data,
                                   !.functions = mods.functions \o m.functions]]

RECURSIVE ConcatLoop(_, _)
ConcatLoop(mods, all_mods) ==
    IF all_mods = <<>> THEN [err |-> "Ok", csx |-> mods]
    ELSE LET r == ConcatStep(mods, all_mods[1])
         IN  IF r.err # "Ok" THEN r ELSE ConcatLoop(r.csx, Tail(all_mods))

concat_mods(all_mods) ==
    IF all_mods = <<>> THEN Failed("NoMods")
    ELSE ConcatLoop(all_mods[1], Tail(all_mods))

\* ApplyLoop recording a name in mods_used only when the function is appended,
\* not when it replaces a base function
RECURSIVE ApplyLoopAppendOnly(_, _)
ApplyLoopAppendOnly(self, fs) ==
    IF fs = <<>> THEN [err |-> "Ok", csx |-> self]
    ELSE IF NameStartsWithAt(fs[1].name)
         THEN IF fs[1].name # Initialize
              THEN [err |-> "BadFunctionName", csx |-> self]
              ELSE ApplyLoopAppendOnly([self EXCEPT !.functions = Append(@, fs[1])], Tail(fs))
    ELSE IF fs[1].name \in self.mods_used
         THEN [err |-> "ModsConflicts", csx |-> self]
    ELSE IF fs[1].name \in DOMAIN self.base_func
         THEN ApplyLoopAppendOnly(
                  [self EXCEPT !.functions[self.base_func[fs[1].name]] = fs[1]], Tail(fs))
    ELSE ApplyLoopAppendOnly(
             [self EXCEPT !.functions = Append(@, fs[1]),
                          !.mods_used = @ \cup {fs[1].name}], Tail(fs))

\* ApplyLoop pushing every mod function, also one whose name is in
\* base_func
RECURSIVE ApplyLoopAlwaysPush(_, _)
ApplyLoopAlwaysPush(self, fs) ==
    IF fs = <<>> THEN [err |-> "Ok", csx |-> self]
    ELSE IF NameStartsWithAt(fs[1].name)
         THEN IF fs[1].name # Initialize
              THEN [err |-> "BadFunctionName", csx |-> self]
              ELSE ApplyLoopAlwaysPush([self EXCEPT !.functions = Append(@, fs[1])], Tail(fs))
    ELSE IF fs[1].name \in self.mods_used
         THEN [err |-> "ModsConflicts", csx |-> self]
    ELSE ApplyLoopAlwaysPush(
             [self EXCEPT !.functions = Append(@, fs[1]),
                          !.mods_used = @ \cup {fs[1].name}], Tail(fs))

\* The loop of apply_all_mods over the mod functions still to be visited;
\* self is the base as mutated so far.  On an error the loop returns, and
\* self stays as the earlier iterations left it.
RECURSIVE ApplyLoop(_, _)
ApplyLoop(self, fs) ==
    IF fs = <<>> THEN [err |-> "Ok", csx |-> self]
    ELSE LET f == fs[1]
         IN  IF NameStartsWithAt(f.name)
             THEN IF f.name # Initialize
                  THEN [err |-> "BadFunctionName", csx |-> self]
                  ELSE ApplyLoop([self EXCEPT !.functions = Append(@, f)], Tail(fs))
             ELSE IF f.name \in self.mods_used
                  THEN [err |-> "ModsConflicts", csx |-> self]
             ELSE LET used == [self EXCEPT !.mods_used = @ \cup {f.name}]
                  IN  IF f.name \in DOMAIN self.base_func
                      THEN ApplyLoop([used EXCEPT !.functions[self.base_func[f.name]] = f],
                                     Tail(fs))
                      ELSE ApplyLoop([used EXCEPT !.functions = Append(@, f)], Tail(fs))

\* apply_all_mods: csx is the value of *self when the call returns
apply_all_mods(self, mods) ==
    IF validate_same_hash(self, mods) # "Ok"
    THEN [err |-> "HashMismatch", csx |-> self]
    ELSE IF validate_items_same_prefix(self, mods) # "Ok"
    THEN [err |-> validate_items_same_prefix(self, mods), csx |-> self]
    ELSE ApplyLoop([self EXCEPT !.global = mods.global, !.data = mods.data],
                   mods.functions)

(***************************************************************************)
(* Compression primitives used by the archive codec.  The flate2 and       *)
(* bsdiff crates are outside the repository; they are modelled by codecs   *)
(* honouring their contracts: ZlibDecoder inverts ZlibEncoder and          *)
(* bsdiff::patch(a, bsdiff::diff(a, b)) = b.                               *)
(***************************************************************************)
ZlibHeader == 120

RECURSIVE RunLength(_, _)
RunLength(s, b) == IF s # <<>> /\ s[1] = b THEN 1 + RunLength(Tail(s), b) ELSE 0

\* run-length coding behind a one-byte stream header
RECURSIVE ZlibRuns(_)
ZlibRuns(s) ==
    IF s = <<>> THEN <<>>
    ELSE LET n == RunLength(s, s[1])
         IN  <<n, s[1]>> \o ZlibRuns(Drop(s, n))

ZlibEncoder(stream) == <<ZlibHeader>> \o ZlibRuns(stream)

RECURSIVE ZlibExpand(_)
ZlibExpand(d) ==
    IF d = <<>> THEN [err |-> "Ok", data |-> <<>>]
    ELSE IF Len(d) < 2 \/ d[1] = 0 THEN [err |-> "IO", data |-> <<>>]
    ELSE LET r == ZlibExpand(Drop(d, 2))
         IN  IF r.err # "Ok" THEN r
             ELSE [err |-> "Ok", data |-> Repeat(d[2], d[1]) \o r.data]

ZlibDecoder(data) ==
    IF data = <<>> \/ data[1] # ZlibHeader THEN [err |-> "IO", data |-> <<>>]
    ELSE ZlibExpand(Tail(data))

RECURSIVE CommonPrefixLen(_, _)
CommonPrefixLen(a, b) ==
    IF a = <<>> \/ b = <<>> \/ a[1] # b[1] THEN 0
    ELSE 1 + CommonPrefixLen(Tail(a), Tail(b))

\* the delta: how many leading bytes to copy from the old data, then the
\* bytes to add
bsdiff_diff(old_data, new_data) ==
    LET n == CommonPrefixLen(old_data, new_data)
    IN  <<n>> \o Drop(new_data, n)

bsdiff_patch(old_data, patch) ==
    IF patch = <<>> \/ patch[1] > Len(old_data) THEN [err |-> "IO", data |-> <<>>]
    ELSE [err |-> "Ok", data |-> Take(old_data, patch[1]) \o Tail(patch)]

(***************************************************************************)
(* The compact archive (compact.rs)                                        *)
(***************************************************************************)
\* The Strings " global " and " data "
GLOBAL == <<32, 103, 108, 111, 98, 97, 108, 32>>

DATA == <<32, 100, 97, 116, 97, 32>>

CompactEntry(name, zlib, data) == [name |-> name, zlib |-> zlib, data |-> data]

CompactCO(base_hash, entries) == [base_hash |-> base_hash, entries |-> entries]

NoCCO == CompactCO(HashDefault, <<>>)

\* Option<&[u8]>
None == [some |-> FALSE, data |-> <<>>]

Some(data) == [some |-> TRUE, data |-> data]

\* CompactEntry::make
make(name, base_data, mods_data) ==
    LET stream == IF base_data.some THEN bsdiff_diff(base_data.data, mods_data)
                  ELSE mods_data
        data == ZlibEncoder(stream)
        zlib == Len(data) < Len(mods_data)
    IN  CompactEntry(name, zlib, IF zlib THEN data ELSE mods_data)

\* base.base_func.get(name).map(|&i| &base.functions[i].bytecode[..])
BaseBytecode(base, name) ==
    IF name \in DOMAIN base.base_func
    THEN Some(base.functions[base.base_func[name]].bytecode)
    ELSE None

\* CompactCO::compress
compress(base, mods) ==
    IF validate_same_hash(base, mods) # "Ok"
    THEN [err |-> "HashMismatch", cco |-> NoCCO]
    ELSE IF validate_items_same_prefix(base, mods) # "Ok"
    THEN [err |-> validate_items_same_prefix(base, mods), cco |-> NoCCO]
    ELSE [err |-> "Ok",
          cco |-> CompactCO(base.base_hash,
                     <<make(GLOBAL, Some(base.global), mods.global),
                       make(DATA, Some(base.data), mods.data)>>
                     \o [i \in DOMAIN mods.functions |->
                            make(mods.functions[i].name,
                                 BaseBytecode(base, mods.functions[i].name),
                                 mods.functions[i].bytecode)])]

\* unpack that never patches against the base
unpack_unpatched(self, base) ==
    IF ~self.zlib THEN [err |-> "Ok", f |-> Function(self.name, self.data)]
    ELSE [err |-> ZlibDecoder(self.data).err,
          f |-> Function(self.name, ZlibDecoder(self.data).data)]

\* CompactEntry::unpack
unpack(self, base) ==
    LET base_data == IF self.name = GLOBAL THEN Some(base.global)
                     ELSE IF self.name = DATA THEN Some(base.data)
                     ELSE BaseBytecode(base, self.name)
        diff == ZlibDecoder(self.data)
        patched == bsdiff_patch(base_data.data, diff.data)
    IN  IF ~self.zlib THEN [err |-> "Ok", f |-> Function(self.name, self.data)]
        ELSE IF diff.err # "Ok" THEN [err |-> diff.err, f |-> Function(self.name, <<>>)]
        ELSE IF ~base_data.some THEN [err |-> "Ok", f |-> Function(self.name, diff.data)]
        ELSE IF patched.err # "Ok" THEN [err |-> patched.err, f |-> Function(self.name, <<>>)]
        ELSE [err |-> "Ok", f |-> Function(self.name, patched.data)]

\* The loop of decompress over the entries still to be unpacked
RECURSIVE DecompressLoop(_, _, _)
DecompressLoop(mods, entries, base) ==
    IF entries = <<>> THEN [err |-> "Ok", csx |-> mods]
    ELSE LET u == unpack(entries[1], base)
         IN  IF u.err # "Ok" THEN Failed(u.err)
             ELSE IF u.f.name = GLOBAL
                  THEN DecompressLoop([mods EXCEPT !.global = u.f.bytecode], Tail(entries), base)
             ELSE IF u.f.name = DATA
                  THEN DecompressLoop([mods EXCEPT !.data = u.f.bytecode], Tail(entries), base)
             ELSE DecompressLoop([mods EXCEPT !.functions = Append(@, u.f)], Tail(entries), base)

\* CompactCO::decompress
decompress(self, base) ==
    LET mods == CSX(self.base_hash, EmptyMap, {}, <<>>, <<>>, <<>>)
    IN  IF validate_same_hash(base, mods) # "Ok" THEN Failed("HashMismatch")
        ELSE IF validate_items_same_prefix(base, mods) # "Ok"
        THEN Failed(validate_items_same_prefix(base, mods))
        ELSE DecompressLoop(mods, self.entries, base)

(***************************************************************************)
(* The archive frame (CompactCO::new, CompactCO::rebuild).  A String holds *)
(* its text as UTF-8; the model holds the code points, so from_utf8        *)
(* decodes and as_bytes encodes.                                           *)
(***************************************************************************)
\* b"Senko\x1a\x00\x00"
CompactMAGIC == <<83, 101, 110, 107, 111, 26, 0, 0>>

\* size_of::<Hash>()
HashSize == 28

HSIZE == Len(CompactMAGIC) + HashSize

\* A continuation byte of UTF-8
IsCont(b) == b >= 128 /\ b <= 191

\* How many bytes the UTF-8 sequence at the head of bytes has; 0 when the
\* head is not a well-formed sequence (overlong forms, surrogates and code
\* points above U+10FFFF are not well formed)
Utf8Width(bytes) ==
    LET b == bytes[1]
        n == Len(bytes)
    IN  IF b < 128 THEN 1
        ELSE IF b >= 194 /\ b <= 223
             THEN IF n >= 2 /\ IsCont(bytes[2]) THEN 2 ELSE 0
        ELSE IF b >= 224 /\ b <= 239
             THEN IF /\ n >= 3
                     /\ IsCont(bytes[2])
                     /\ IsCont(bytes[3])
                     /\ (b = 224 => bytes[2] >= 160)
                     /\ (b = 237 => bytes[2] <= 159)
                  THEN 3 ELSE 0
        ELSE IF b >= 240 /\ b <= 244
             THEN IF /\ n >= 4
                     /\ IsCont(bytes[2])
                     /\ IsCont(bytes[3])
                     /\ IsCont(bytes[4])
                     /\ (b = 240 => bytes[2] >= 144)
                     /\ (b = 244 => bytes[2] <= 143)
                  THEN 4 ELSE 0
        ELSE 0

\* The code point of a well-formed sequence of w bytes
Utf8CodePoint(bytes, w) ==
    IF w = 1 THEN bytes[1]
    ELSE IF w = 2 THEN (bytes[1] - 192) * 64 + (bytes[2] - 128)
    ELSE IF w = 3
         THEN (bytes[1] - 224) * 4096 + (bytes[2] - 128) * 64 + (bytes[3] - 128)
    ELSE (bytes[1] - 240) * 262144 + (bytes[2] - 128) * 4096
         + (bytes[3] - 128) * 64 + (bytes[4] - 128)

RECURSIVE decode_utf8(_)
decode_utf8(bytes) ==
    IF bytes = <<>> THEN [bad |-> FALSE, text |-> <<>>]
    ELSE LET w == Utf8Width(bytes)
         IN  IF w = 0 THEN [bad |-> TRUE, text |-> <<>>]
             ELSE LET r == decode_utf8(Drop(bytes, w))
                  IN  [bad |-> r.bad, text |-> <<Utf8CodePoint(bytes, w)>> \o r.text]

Utf8Decoded(d) ==
    IF d.bad THEN [err |-> "DecodeUtf8", name |-> <<>>]
    ELSE [err |-> "Ok", name |-> d.text]

\* String::from_utf8
from_utf8(bytes) == Utf8Decoded(decode_utf8(bytes))

\* The UTF-8 bytes of one code point
Utf8Bytes(cp) ==
    IF cp < 128 THEN <<cp>>
    ELSE IF cp < 2048 THEN <<192 + (cp \div 64), 128 + (cp % 64)>>
    ELSE IF cp < 65536
         THEN <<224 + (cp \div 4096), 128 + ((cp \div 64) % 64), 128 + (cp % 64)>>
    ELSE <<240 + (cp \div 262144), 128 + ((cp \div 4096) % 64),
           128 + ((cp \div 64) % 64), 128 + (cp % 64)>>

\* String::as_bytes
as_bytes(text) == Flatten([i \in DOMAIN text |-> Utf8Bytes(text[i])])

\* (byte & !1) == 0xC0
IsFlag(byte) == byte = 192 \/ byte = 193

\* cco.iter().position(..): how many bytes precede the first flag byte, -1
\* for None
RECURSIVE position(_, _)
position(cco, i) ==
    IF i > Len(cco) THEN -1
    ELSE IF IsFlag(cco[i]) THEN i - 1
    ELSE position(cco, i + 1)

FailedCCO(e) == [err |-> e, cco |-> NoCCO]

NoEntries(e) == [err |-> e, entries |-> <<>>]

EntryPushed(e, r) ==
    IF r.err # "Ok" THEN r ELSE [err |-> "Ok", entries |-> <<e>> \o r.entries]

\* The loop of CompactCO::new over the bytes still to be read
RECURSIVE ReadEntries(_)

EntryData(name, zlib, len, rest) ==
    IF len > Len(rest) THEN NoEntries("UnexpectedEof")
    ELSE EntryPushed(CompactEntry(name, zlib, Take(rest, len)),
                     ReadEntries(Drop(rest, len)))

EntryNamed(name, rest) ==
    IF name.err # "Ok" THEN NoEntries(name.err)
    ELSE IF Len(rest) < 5 THEN NoEntries("UnexpectedEof")
    ELSE EntryData(name.name, rest[1] = 193, from_le_bytes(SubSeq(rest, 2, 5)),
                   Drop(rest, 5))

EntryAt(cco, size) ==
    IF size < 0 THEN NoEntries("UnexpectedEof")
    ELSE EntryNamed(from_utf8(Take(cco, size)), Drop(cco, size))

ReadEntries(cco) ==
    IF cco = <<>> THEN NoEntries("Ok") ELSE EntryAt(cco, position(cco, 1))

NewCCO(base_hash, r) ==
    IF r.err # "Ok" THEN FailedCCO(r.err)
    ELSE [err |-> "Ok", cco |-> CompactCO(base_hash, r.entries)]

\* CompactCO::new; a Hash is held as the number its bytes spell
CompactCO_new(cco) ==
    IF Len(cco) < HSIZE THEN FailedCCO("UnexpectedEof")
    ELSE IF ~starts_with(cco, CompactMAGIC) THEN FailedCCO("BadMagic")
    ELSE NewCCO(from_le_bytes(SubSeq(cco, Len(CompactMAGIC) + 1, HSIZE)),
                ReadEntries(Drop(cco, HSIZE)))

\* An entry written with the flag byte 0xC0 whatever its zlib field
EntryBytesRaw(e) ==
    as_bytes(e.name) \o <<192>> \o to_le_bytes(Len(e.data), 4) \o e.data

\* What the loop of CompactCO::rebuild writes for one entry
EntryBytes(e) ==
    as_bytes(e.name) \o <<IF e.zlib THEN 193 ELSE 192>>
    \o to_le_bytes(Len(e.data), 4) \o e.data

\* CompactCO::rebuild
CompactCO_rebuild(self) ==
    CompactMAGIC \o to_le_bytes(self.base_hash, HashSize)
    \o Flatten([i \in DOMAIN self.entries |-> EntryBytes(self.entries[i])])

(***************************************************************************)
(* Inputs: function blobs, CSX files and mod images                        *)
(***************************************************************************)
\* UTF-16LE bytes of a text without surrogates
utf16le(text) == Flatten([i \in DOMAIN text |-> <<text[i] % 256, text[i] \div 256>>])

\* A name field: tag 0x04, u32 character count, the UTF-16LE bytes
NameField(text) == <<4>> \o to_le_bytes(Len(text), 4) \o utf16le(text)

Blob(text, body) == NameField(text) \o body

NameA == <<65>>

NameB == <<66>>

NameN == <<78>>

NameAtX == <<At, 88>>

\* A CSX file whose directory lists, per function of the layout, the
\* address of that function listed[i] times (prologue list for the name
\* "@Initialize", named list otherwise)
LayoutFunctions(layout) == [i \in DOMAIN layout |-> Function(layout[i].name, Blob(layout[i].name, layout[i].body))]

DirPrologue(layout, listed) ==
    LET fs == LayoutFunctions(layout)
    IN  Flatten([i \in DOMAIN layout |->
                    IF layout[i].name = Initialize
                    THEN Repeat(AddrOf(fs, i), listed[i]) ELSE <<>>])

DirNamed(layout, listed) ==
    LET fs == LayoutFunctions(layout)
    IN  Flatten([i \in DOMAIN layout |->
                    IF layout[i].name = Initialize THEN <<>>
                    ELSE Repeat([addr |-> AddrOf(fs, i), name |-> utf16le(layout[i].name)],
                                listed[i])])

CsxFile(layout, listed, global, data) ==
    LET fs == LayoutFunctions(layout)
        body == Section(TagImage, Flatten([i \in DOMAIN fs |-> fs[i].bytecode]))
                \o Section(TagFunction,
                           DirectoryBytes(DirPrologue(layout, listed), DirNamed(layout, listed)))
                \o Section(TagGlobal, global)
                \o Section(TagData, data)
    IN  MAGIC \o to_le_bytes(Len(body), 8) \o body

Entry(name, body) == [name |-> name, body |-> body]

\* The base file of the merge specifications: @Initialize, A and B, all
\* listed once
MergeBaseLayout == <<Entry(Initialize, <<0, 0, 0, 0, 9, 1>>), Entry(NameA, <<1>>), Entry(NameB, <<2>>)>>

MergeBaseFile == CsxFile(MergeBaseLayout, <<1, 1, 1>>, <<1, 2, 3, 4>>, <<7, 8>>)

\* Some other base image, with another hash
OtherBase == new(CsxFile(MergeBaseLayout, <<1, 1, 1>>, <<1, 2, 3, 4>>, <<7>>)).csx

OtherHash == OtherBase.base_hash

Mod(base_hash, global, data, functions) ==
    CSX(base_hash, EmptyMap, {}, global, data, functions)

\* How many functions a mod image of the pools carries at most
MaxFuncs == 2

\* How many apply_all_mods calls a behaviour makes at most
MaxApply == 2

\* How many mods a concat_mods call is given at most
MaxMods == 3

\* How many times a directory lists the address of one function at most
MaxListed == 2

SeqsUpTo(S, n) == UNION {[1..k -> S] : k \in 0..n}

ModA == Function(NameA, Blob(NameA, <<11>>))

ModN == Function(NameN, Blob(NameN, <<12>>))

ModInit == Function(Initialize, Blob(Initialize, <<0, 0, 0, 0, 9, 2>>))

ModAtX == Function(NameAtX, Blob(NameAtX, <<13>>))

\* Mod images given to apply_all_mods: every function list over the four
\* functions with blobs equal to the base's, and short lists with a foreign
\* hash and with shorter, longer or incompatible blobs
ApplyPool(base_hash) ==
    {Mod(base_hash, <<1, 2, 3, 4>>, <<7, 8>>, fs) :
        fs \in SeqsUpTo({ModA, ModN, ModInit, ModAtX}, MaxFuncs)}
    \cup
    {Mod(h[1], h[2], h[3], fs) :
        h \in {<<OtherHash, <<1, 2, 3, 4>>, <<7, 8>>>>,
               <<base_hash, <<1, 2>>, <<7, 8>>>>,
               <<base_hash, <<1, 2, 3, 4, 5>>, <<7, 8>>>>,
               <<base_hash, <<1, 3>>, <<7, 8>>>>,
               <<base_hash, <<1, 2, 3, 4>>, <<7>>>>,
               <<base_hash, <<1, 2, 3, 4>>, <<7, 8, 9>>>>,
               <<base_hash, <<1, 2, 3, 4>>, <<9>>>>},
        fs \in {<<>>, <<ModA>>, <<ModA, ModA>>}}

\* Mod images given to concat_mods: the function carried depends on the
\* global blob
ConcatPool(base_hash) ==
    {Mod(h, g[1], d, g[2]) :
        h \in {base_hash, OtherHash},
        g \in {<<<<1, 2, 3, 4>>, <<ModA>>>>, <<<<1, 2, 3, 4, 5>>, <<ModN>>>>, <<<<1, 3>>, <<>>>>},
        d \in {<<7, 8>>, <<7, 8, 9>>, <<9>>}}

\* Functions of the mods given to compress: a one-byte change of the base's
\* A, a new function, a new function with a long run, a prologue and a
\* function named like the distinguished entry " global "
ModZ == Function(<<90>>, Blob(<<90>>, Zeros(10)))

ModGlobalNamed == Function(GLOBAL, Blob(GLOBAL, <<14>>))

CompressPool(base_hash) ==
    {Mod(base_hash, g[1], g[2], fs) :
        g \in {<<<<1, 2, 3, 4>>, <<7, 8>>>>, <<<<1, 2>>, <<7>>>>},
        fs \in SeqsUpTo({ModA, ModN, ModZ, ModInit, ModGlobalNamed}, MaxFuncs)}
    \cup
    {Mod(h[1], h[2], <<7, 8>>, <<ModA>>) :
        h \in {<<OtherHash, <<1, 2, 3, 4>>>>, <<base_hash, <<1, 3>>>>}}

(***************************************************************************)
(* Base files given to the parser                                          *)
(***************************************************************************)
EntInit == Entry(Initialize, <<0, 0, 0, 0, 9, 1>>)

EntA == Entry(NameA, <<1>>)

EntB == Entry(NameB, <<2>>)

EntAB == Entry(<<65, 66>>, <<3>>)

EntAtX == Entry(NameAtX, <<13>>)

\* names U+00FF and U+0100: byte order and code-unit order disagree
EntFF == Entry(<<255>>, <<4>>)

Ent100 == Entry(<<256>>, <<5>>)

Layouts ==
    {<<EntInit, EntA, EntB>>, <<EntB, EntA>>, <<EntAtX, EntA>>,
     <<Ent100, EntFF>>, <<EntAB, EntInit>>}

BaseGlobal == <<1, 2, 3, 4>>

BaseData == <<7, 8>>

ListedFiles ==
    UNION {{CsxFile(l, ls, BaseGlobal, BaseData) : ls \in [DOMAIN l -> 0..MaxListed]} :
           l \in Layouts}

\* Files the parser rejects before it reads the directory
BrokenFiles ==
    LET f == MergeBaseFile
    IN  {Take(f, 40), [f EXCEPT ![1] = 0], Take(f, Len(f) - 1),
         f \o Section(<<120, 120, 120, 120, 120, 120, 120, 120>>, <<>>),
         f \o Section(TagConststr, <<1, 0, 0, 0>>),
         f \o Section(TagLinkinf, <<1>>),
         CsxFile(MergeBaseLayout, <<1, 1, 1>>, <<>>, BaseData),
         CsxFile(MergeBaseLayout, <<1, 1, 1>>, BaseGlobal, <<>>)}

BaseInputs == ListedFiles \cup BrokenFiles

\* Mod files given to new_mods
ModFiles ==
    {CsxFile(<<Entry(NameA, <<11>>)>>, <<1>>, BaseGlobal, BaseData),
     CsxFile(<<Entry(NameN, <<12>>), EntInit>>, <<1, 1>>, BaseGlobal, BaseData),
     CsxFile(<<Ent100, EntAB>>, <<1, 1>>, <<1, 2>>, BaseData),
     CsxFile(<<EntFF>>, <<1>>, BaseGlobal, BaseData),
     CsxFile(<<EntAtX, EntA>>, <<0, 1>>, BaseGlobal, BaseData)}

\* How many entry frames an archive file of the pool is put together from
\* at most
MaxEntries == 2

\* The bytes of one entry: name, flag byte, u32 length, payload
Frame(name, flag, data) == name \o <<flag>> \o to_le_bytes(Len(data), 4) \o data

\* Pieces archive files are put together from: raw " global " and " data "
\* entries, a raw override of A, a raw function Z whose bytecode has no name
\* field, a compressed new function named U+00FF, a compressed delta
\* against the base's B, a name that is not UTF-8, a length that reaches
\* past the piece, bytes without a flag byte, and an entry with an empty
\* name whose payload holds flag bytes
CcoPieces ==
    {Frame(GLOBAL, 192, <<1, 2, 3, 4>>),
     Frame(DATA, 192, <<7, 8>>),
     Frame(NameA, 192, Blob(NameA, <<11>>)),
     Frame(<<90>>, 192, <<1>>),
     Frame(<<195, 191>>, 193, ZlibEncoder(Blob(<<255>>, Zeros(12)))),
     Frame(NameB, 193, ZlibEncoder(bsdiff_diff(Blob(NameB, <<2>>), Blob(NameB, <<2, 2>>)))),
     Frame(<<128>>, 192, <<>>),
     <<65, 192, 9, 0, 0, 0, 1>>,
     <<65, 66>>,
     Frame(<<>>, 192, <<192, 193>>)}

CcoHeader(base_hash) == CompactMAGIC \o to_le_bytes(base_hash, HashSize)

\* Archive files given to CompactCO::new
CcoFiles(base_hash) ==
    {CcoHeader(h) \o Flatten(ps) :
        h \in {base_hash, OtherHash}, ps \in SeqsUpTo(CcoPieces, MaxEntries)}
    \cup {Take(CcoHeader(base_hash), HSIZE - 1),
          [CcoHeader(base_hash) EXCEPT ![1] = 0]}

(***************************************************************************)
(* State                                                                   *)
(***************************************************************************)
VARIABLES
    archive,   \* the bytes given to CompactCO::new
    input,     \* the bytes given to CSX::new
    base,      \* the base image the caller holds
    old,       \* the base image before the last call
    call,      \* the last call: its operation and its Result
    mods,      \* the mod image of the last call
    all_mods,  \* the list given to the last concat_mods
    result,    \* the image returned by the last call
    cco,       \* the archive returned by the last compress
    out,       \* what the last rebuild returned
    history    \* per apply_all_mods call so far: the names of its mod
               \* functions and whether it got past the hash and prefix checks

vars == <<archive, input, base, old, call, mods, all_mods, result, cco, out, history>>

Call(op, err) == [op |-> op, err |-> err]

NoOut == [panic |-> FALSE, bytes |-> <<>>]

Names(functions) == [i \in DOMAIN functions |-> functions[i].name]

\* A parsed base is held (a parsed image has a non-empty global)
BaseLive == base # NoCSX

(***************************************************************************)
(* Operations                                                              *)
(***************************************************************************)
\* base.apply_all_mods(m)
Apply(m) ==
    LET r == apply_all_mods(base, m)
    IN  /\ base' = r.csx
        /\ old' = base
        /\ mods' = m
        /\ call' = Call("apply_all_mods", r.err)
        /\ history' = Append(history,
                          [names |-> Names(m.functions),
                           checked |-> /\ base.base_hash = m.base_hash
                                       /\ starts_with(base.global, m.global)
                                       /\ starts_with(base.data, m.data)])
        /\ UNCHANGED <<archive, input, all_mods, result, cco, out>>

ApplyAllMods ==
    /\ BaseLive
    /\ Len(history) < MaxApply
    /\ \E m \in ApplyPool(base.base_hash) : Apply(m)

\* apply_all_mods on the freshly parsed base
ApplyOnce ==
    /\ call.op = "new"
    /\ \E m \in ConcatPool(base.base_hash) : Apply(m)

\* CSX::concat_mods(list)
ConcatMods ==
    /\ call.op = "new"
    /\ \E list \in SeqsUpTo(ConcatPool(base.base_hash), MaxMods) :
          LET r == concat_mods(list)
          IN  /\ all_mods' = list
              /\ result' = r.csx
              /\ call' = Call("concat_mods", r.err)
              /\ old' = base
              /\ mods' = NoCSX
              /\ cco' = NoCCO
              /\ UNCHANGED <<archive, input, base, out, history>>

\* CompactCO::compress(&base, &m)
Compress ==
    /\ call.op = "new"
    /\ \E m \in CompressPool(base.base_hash) :
          LET r == compress(base, m)
          IN  /\ cco' = r.cco
              /\ mods' = m
              /\ call' = Call("compress", r.err)
              /\ old' = base
              /\ all_mods' = <<>>
              /\ result' = NoCSX
              /\ UNCHANGED <<archive, input, base, out, history>>

\* cco.decompress(&b) of the archive just made, b the base or another one;
\* old records b
Decompress ==
    /\ call = Call("compress", "Ok")
    /\ \E b \in {base, OtherBase} :
          LET r == decompress(cco, b)
          IN  /\ result' = r.csx
              /\ call' = Call("decompress", r.err)
              /\ old' = b
              /\ UNCHANGED <<archive, input, base, mods, all_mods, cco, out, history>>

\* CSX::new(input)
ParseBase ==
    /\ call.op = "none"
    /\ LET r == new(input)
       IN  /\ base' = r.csx
           /\ old' = r.csx
           /\ call' = Call("new", r.err)
           /\ UNCHANGED <<archive, input, mods, all_mods, result, cco, out, history>>

\* base.new_mods(file)
NewMods ==
    /\ BaseLive
    /\ call.op \in {"new", "apply_all_mods", "new_mods"}
    /\ Len(history) < MaxApply
    /\ \E file \in ModFiles :
          LET r == new_mods(base, file)
          IN  /\ mods' = r.csx
              /\ call' = Call("new_mods", r.err)
              /\ UNCHANGED <<archive, input, base, old, all_mods, result, cco, out, history>>

\* base.apply_all_mods(mods) of the mod image just parsed
ApplyParsed ==
    /\ call = Call("new_mods", "Ok")
    /\ Apply(mods)

Rebuilt(r) ==
    /\ out' = r
    /\ call' = Call("rebuild", IF r.panic THEN "Panic" ELSE "Ok")
    /\ UNCHANGED <<archive, input, base, old, mods, all_mods, result, cco, history>>

\* base.rebuild(); a panic of the unwrap is recorded as the outcome
Rebuild ==
    /\ BaseLive
    /\ call.op \in {"new", "apply_all_mods"}
    /\ Rebuilt(rebuild(base))

\* CSX::new(rebuilt bytes)
ParseRebuilt ==
    /\ call = Call("rebuild", "Ok")
    /\ LET r == new(out.bytes)
       IN  /\ result' = r.csx
           /\ call' = Call("new_rebuilt", r.err)
           /\ UNCHANGED <<archive, input, base, old, mods, all_mods, cco, out, history>>

\* CompactCO::new(file)
ParseCco ==
    /\ call.op = "new"
    /\ \E file \in CcoFiles(base.base_hash) :
          LET r == CompactCO_new(file)
          IN  /\ archive' = file
              /\ cco' = r.cco
              /\ call' = Call("CompactCO::new", r.err)
              /\ UNCHANGED <<input, base, old, mods, all_mods, result, out, history>>

\* cco.rebuild() of the archive just parsed
RebuildCco ==
    /\ call = Call("CompactCO::new", "Ok")
    /\ out' = [panic |-> FALSE, bytes |-> CompactCO_rebuild(cco)]
    /\ call' = Call("CompactCO::rebuild", "Ok")
    /\ UNCHANGED <<archive, input, base, old, mods, all_mods, result, cco, history>>

\* cco.decompress(&base) of the archive just parsed
DecompressParsed ==
    /\ call = Call("CompactCO::new", "Ok")
    /\ LET r == decompress(cco, base)
       IN  /\ result' = r.csx
           /\ call' = Call("decompress", r.err)
           /\ UNCHANGED <<archive, input, base, old, mods, all_mods, cco, out, history>>

\* base.apply_all_mods(mods) of the image just decompressed
ApplyDecompressed ==
    /\ call = Call("decompress", "Ok")
    /\ Apply(result)

(***************************************************************************)
(* Specifications                                                          *)
(***************************************************************************)
InitParsed ==
    /\ archive = <<>>
    /\ input = MergeBaseFile
    /\ base = new(input).csx
    /\ old = base
    /\ call = Call("new", "Ok")
    /\ mods = NoCSX
    /\ all_mods = <<>>
    /\ result = NoCSX
    /\ cco = NoCCO
    /\ out = NoOut
    /\ history = <<>>

InitCodec ==
    /\ archive = <<>>
    /\ input \in BaseInputs
    /\ base = NoCSX
    /\ old = NoCSX
    /\ call = Call("none", "Ok")
    /\ mods = NoCSX
    /\ all_mods = <<>>
    /\ result = NoCSX
    /\ cco = NoCCO
    /\ out = NoOut
    /\ history = <<>>

\* Sequences of apply_all_mods calls on one parsed base
Next == ApplyAllMods

Spec == InitParsed /\ [][Next]_vars

\* The mod operations, each called on a freshly parsed base
NextOps == ConcatMods \/ ApplyOnce \/ Compress \/ Decompress

SpecOps == InitParsed /\ [][NextOps]_vars

\* Parse a base file, parse and apply mod files, rebuild, parse the output
NextCodec == ParseBase \/ NewMods \/ ApplyParsed \/ Rebuild \/ ParseRebuilt

SpecCodec == InitCodec /\ [][NextCodec]_vars

\* Parse an archive file, write it back, decompress it against the base,
\* apply the outcome and rebuild the base
NextArchive ==
    ParseCco \/ RebuildCco \/ DecompressParsed \/ ApplyDecompressed \/ Rebuild

SpecArchive == InitParsed /\ [][NextArchive]_vars

(***************************************************************************)
(* Properties                                                              *)
(***************************************************************************)
Applied == call.op = "apply_all_mods"

StrictExt(long, short) == starts_with(long, short) /\ Len(long) > Len(short)

\* C1: when apply_all_mods returns an error, the base's global, data,
\* functions and mods_used are what they were before the call.
C1_ErrorLeavesBaseUntouched ==
    (Applied /\ call.err # "Ok") =>
        /\ base.global = old.global
        /\ base.data = old.data
        /\ base.functions = old.functions
        /\ base.mods_used = old.mods_used

\* Some mod of the list has another base_hash than the first one
SomeHashDiffers(list) == \E i \in DOMAIN list : list[i].base_hash # list[1].base_hash

\* The blobs are pairwise comparable under the prefix relation
Chain(blobs) == \A a, b \in blobs : starts_with(a, b) \/ starts_with(b, a)

Globals(list) == {list[i].global : i \in DOMAIN list}

Datas(list) == {list[i].data : i \in DOMAIN list}

\* Index of the first mod whose base_hash differs from the first mod's
FirstForeign(list) ==
    CHOOSE i \in DOMAIN list :
        /\ list[i].base_hash # list[1].base_hash
        /\ \A j \in 1..(i - 1) : list[j].base_hash = list[1].base_hash

\* C2 as stated: whenever an input's base_hash differs from the target's,
\* concat_mods, apply_all_mods, compress and decompress fail with
\* HashMismatch and the base is unchanged.
C2_HashMismatchAlwaysReported ==
    /\ (call.op = "concat_mods" /\ SomeHashDiffers(all_mods)) =>
           (call.err = "HashMismatch" /\ base = old)
    /\ (Applied /\ mods.base_hash # old.base_hash) =>
           (call.err = "HashMismatch" /\ base = old)
    /\ (call.op = "compress" /\ mods.base_hash # old.base_hash) =>
           (call.err = "HashMismatch" /\ base = old)
    /\ (call.op = "decompress" /\ cco.base_hash # old.base_hash) =>
           call.err = "HashMismatch"

\* C2 amended: on a hash mismatch apply_all_mods, compress and decompress
\* fail with HashMismatch; concat_mods fails, with HashMismatch when the mods
\* before the first foreign one have globals and datas that form prefix
\* chains, and with IncompatibleGlobal or IncompatibleData otherwise; the
\* base is unchanged in every case.
C2_HashGating ==
    /\ (call.op = "concat_mods" /\ SomeHashDiffers(all_mods)) =>
           LET before == Take(all_mods, FirstForeign(all_mods) - 1)
           IN  /\ base = old
               /\ call.err \in {"HashMismatch", "IncompatibleGlobal", "IncompatibleData"}
               /\ call.err = "HashMismatch" <=>
                      (Chain(Globals(before)) /\ Chain(Datas(before)))
    /\ (Applied /\ mods.base_hash # old.base_hash) =>
           (call.err = "HashMismatch" /\ base = old)
    /\ (call.op = "compress" /\ mods.base_hash # old.base_hash) =>
           (call.err = "HashMismatch" /\ base = old /\ cco = NoCCO)
    /\ (call.op = "decompress" /\ cco.base_hash # old.base_hash) =>
           (call.err = "HashMismatch" /\ result = NoCSX)

\* concat_mods of three mods, the third with a foreign hash, reported
\* HashMismatch
C2_Witness ==
    /\ call = Call("concat_mods", "HashMismatch")
    /\ Len(all_mods) = 3
    /\ all_mods[2].base_hash = all_mods[1].base_hash
    /\ all_mods[3].base_hash # all_mods[1].base_hash

\* Names of the history's calls, in call order
RECURSIVE AllNames(_)
AllNames(h) == IF h = <<>> THEN <<>> ELSE h[1].names \o AllNames(Tail(h))

HasRepeatedName(names) ==
    \E i, j \in DOMAIN names :
        i < j /\ names[i] = names[j] /\ ~NameStartsWithAt(names[i])

\* C3 as stated: a call fails with ModsConflicts iff some non-'@' name
\* appears more than once among the mod functions given to this and the
\* earlier calls; mods_used only grows.
C3_ConflictIffRepeated ==
    Applied =>
        /\ call.err = "ModsConflicts" <=> HasRepeatedName(AllNames(history))
        /\ old.mods_used \subseteq base.mods_used

\* The function at position i stops the loop, given the names used before
\* the call: an '@' name other than "@Initialize", or a non-'@' name that
\* is in used or at an earlier position
Offends(names, used, i) ==
    IF NameStartsWithAt(names[i]) THEN names[i] # Initialize
    ELSE names[i] \in used \/ \E j \in 1..(i - 1) : names[j] = names[i]

FirstOffence(names, used) ==
    IF \E i \in DOMAIN names : Offends(names, used, i)
    THEN CHOOSE i \in DOMAIN names :
             Offends(names, used, i) /\ \A j \in 1..(i - 1) : ~Offends(names, used, j)
    ELSE Len(names) + 1

\* The non-'@' names before the first offence
Recorded(names, used) ==
    {names[i] : i \in {j \in 1..(FirstOffence(names, used) - 1) :
                       ~NameStartsWithAt(names[j])}}

\* The names recorded by the calls of a history
RECURSIVE UsedAfter(_)
UsedAfter(h) ==
    IF h = <<>> THEN {}
    ELSE LET used == UsedAfter(Take(h, Len(h) - 1))
             c == h[Len(h)]
         IN  IF c.checked THEN used \cup Recorded(c.names, used) ELSE used

\* C3 amended: a call fails with ModsConflicts iff it passes the hash and
\* prefix checks and the first function, in mod order, that is either an
\* '@' name other than "@Initialize" or a non-'@' name recorded before (earlier
\* in this call or by an earlier call, failed ones included) is of the second
\* kind; mods_used is the set of recorded names and only grows.
C3_ConflictIffFirstOffenceRepeats ==
    Applied =>
        LET c == history[Len(history)]
            used == UsedAfter(Take(history, Len(history) - 1))
            first == FirstOffence(c.names, used)
        IN  /\ call.err = "ModsConflicts" <=>
                   (c.checked /\ first <= Len(c.names)
                    /\ ~NameStartsWithAt(c.names[first]))
            /\ old.mods_used = used
            /\ base.mods_used = UsedAfter(history)
            /\ old.mods_used \subseteq base.mods_used

\* The second call repeats a name that the first call recorded
C3_Witness ==
    /\ Applied
    /\ call.err = "ModsConflicts"
    /\ Len(history) = 2
    /\ history[2].names = <<NameA>>
    /\ NameA \in old.mods_used

\* C4: concat_mods of an empty list fails with NoMods; for a non-empty list
\* of equal base_hash it succeeds exactly when the globals and the datas
\* each form a chain under the prefix relation, fails with IncompatibleGlobal
\* or IncompatibleData otherwise, and on success each of global and data is
\* one of the inputs' blobs and has every input's blob as a prefix.
C4_ConcatPrefixMonotone ==
    call.op = "concat_mods" =>
        /\ all_mods = <<>> => call.err = "NoMods"
        /\ (all_mods # <<>> /\ ~SomeHashDiffers(all_mods)) =>
               /\ call.err \in {"Ok", "IncompatibleGlobal", "IncompatibleData"}
               /\ call.err = "Ok" <=>
                      (Chain(Globals(all_mods)) /\ Chain(Datas(all_mods)))
               /\ call.err = "Ok" =>
                      /\ result.global \in Globals(all_mods)
                      /\ \A g \in Globals(all_mods) : starts_with(result.global, g)
                      /\ result.data \in Datas(all_mods)
                      /\ \A d \in Datas(all_mods) : starts_with(result.data, d)

\* Three mods concatenated, the longest global first and the longest data
\* in the middle
C4_Witness ==
    /\ call = Call("concat_mods", "Ok")
    /\ Len(all_mods) = 3
    /\ StrictExt(all_mods[1].global, all_mods[3].global)
    /\ StrictExt(all_mods[2].data, all_mods[3].data)
    /\ StrictExt(all_mods[2].data, all_mods[1].data)

\* C5: after a successful apply_all_mods the base's global and data each
\* have the pre-call base blob and the mod blob as a prefix.
C5_ResultExtendsInputs ==
    (Applied /\ call.err = "Ok") =>
        /\ starts_with(base.global, old.global)
        /\ starts_with(base.global, mods.global)
        /\ starts_with(base.data, old.data)
        /\ starts_with(base.data, mods.data)

\* No function of the mod stops the loop of apply_all_mods
NoOffence(names, used) == FirstOffence(names, used) > Len(names)

\* C6: a mod of the base's hash whose global and data equal or strictly
\* extend the base's, and whose functions raise no error, is applied
\* successfully and the base takes the mod's blobs.
C6_LongerModBlobAdopted ==
    ( /\ Applied
      /\ mods.base_hash = old.base_hash
      /\ starts_with(mods.global, old.global)
      /\ starts_with(mods.data, old.data)
      /\ NoOffence(Names(mods.functions), old.mods_used) ) =>
        /\ call.err = "Ok"
        /\ base.global = mods.global
        /\ base.data = mods.data

\* C7: for a base file the parser accepts, rebuild returns bytes that the
\* parser accepts and that parse to an image equal to the first parse in
\* global, data, functions and base_func.
C7_CsxRoundTrip ==
    history = <<>> =>
        /\ call.op = "rebuild" => ~out.panic
        /\ call.op = "new_rebuilt" =>
               /\ call.err = "Ok"
               /\ result.global = base.global
               /\ result.data = base.data
               /\ result.functions = base.functions
               /\ result.base_func = base.base_func

\* The decompression of an archive by the base it was compressed against
RoundTripped == call.op = "decompress" /\ old = base

DistinguishedNames == {GLOBAL, DATA}

\* C8 as stated: decompress(compress(base, mods), base) succeeds and yields
\* the global, the data and the functions of mods, whatever the names of the
\* mod functions.
C8_RoundTripAnyName ==
    RoundTripped =>
        /\ call.err = "Ok"
        /\ result.global = mods.global
        /\ result.data = mods.data
        /\ result.functions = mods.functions

\* C8 amended: the same, for mods none of whose functions is named
\* " global " or " data ".
C8_RoundTrip ==
    (RoundTripped /\ \A i \in DOMAIN mods.functions :
                         mods.functions[i].name \notin DistinguishedNames) =>
        /\ call.err = "Ok"
        /\ result.global = mods.global
        /\ result.data = mods.data
        /\ result.functions = mods.functions

\* A round trip of a mod with a function patched against the base's and a
\* function absent from the base, both stored compressed
C8_Witness ==
    /\ RoundTripped
    /\ call.err = "Ok"
    /\ Len(mods.functions) = 2
    /\ mods.functions[1].name \in DOMAIN base.base_func
    /\ mods.functions[2].name \notin DOMAIN base.base_func \cup DistinguishedNames
    /\ \A i \in DOMAIN cco.entries : cco.entries[i].name # DATA => cco.entries[i].zlib

\* The records {addr, name} of the named-function directory of a CSX file
RECURSIVE DirRecords(_, _)
DirRecords(bytes, count) ==
    IF count = 0 THEN <<>>
    ELSE <<[addr |-> from_le_bytes(Take(bytes, 4)),
            name |-> SubSeq(bytes, 9, 8 + 2 * from_le_bytes(SubSeq(bytes, 5, 8)))]>>
         \o DirRecords(Drop(bytes, 8 + 2 * from_le_bytes(SubSeq(bytes, 5, 8))), count - 1)

AfterPrologue(function) == Drop(function, 8 + 4 * from_le_bytes(Take(function, 4)))

NamedDirectory(function) ==
    DirRecords(Drop(AfterPrologue(function), 4),
               from_le_bytes(Take(AfterPrologue(function), 4)))

FunctionSection(file) == ReadSections(Drop(file, 64), NoSections).secs[TagFunction]

\* The 16-bit little-endian code units of name bytes
CodeUnits(name) == [i \in 1..(Len(name) \div 2) |-> name[2 * i - 1] + 256 * name[2 * i]]

\* u is before or equal to v in lexicographic order, a proper prefix first
LexLe(u, v) ==
    \/ Len(u) <= Len(v) /\ \A i \in 1..Len(u) : u[i] = v[i]
    \/ \E k \in 1..Len(u) :
          /\ k <= Len(v)
          /\ u[k] < v[k]
          /\ \A i \in 1..(k - 1) : u[i] = v[i]

DirectorySorted(records) ==
    \A i \in 1..(Len(records) - 1) :
        LexLe(CodeUnits(records[i].name), CodeUnits(records[i + 1].name))

Rebuilt_ok == call.op = "rebuild" /\ ~out.panic

\* C9: in every output of rebuild the records of the named-function
\* directory are in non-decreasing order of their names compared as
\* sequences of 16-bit little-endian code units.
C9_DirectorySorted ==
    Rebuilt_ok => DirectorySorted(NamedDirectory(FunctionSection(out.bytes)))

\* A rebuild after mods were applied, whose directory has at least three
\* records, is not in address order and holds a name beyond U+00FF
C9_Witness ==
    /\ Rebuilt_ok
    /\ history # <<>>
    /\ LET records == NamedDirectory(FunctionSection(out.bytes))
       IN  /\ Len(records) >= 3
           /\ \E i \in 1..(Len(records) - 1) : records[i].addr > records[i + 1].addr
           /\ \E i \in DOMAIN records : records[i].name = <<0, 1>>

AtNamesAreInitialize(functions) ==
    \A i \in DOMAIN functions :
        NameStartsWithAt(functions[i].name) => functions[i].name = Initialize

\* C10: in every image the parser or a successful apply_all_mods produces,
\* every function whose name begins with '@' is named "@Initialize", and in
\* every rebuild output no record of the named-function directory has a name
\* that begins with '@'.
C10_PrologueOnlyInitialize ==
    /\ (call \in {Call("new", "Ok"), Call("apply_all_mods", "Ok")}) =>
           AtNamesAreInitialize(base.functions)
    /\ Rebuilt_ok =>
           \A r \in {NamedDirectory(FunctionSection(out.bytes))[i] :
                     i \in DOMAIN NamedDirectory(FunctionSection(out.bytes))} :
               ~starts_with(r.name, <<At, 0>>)

\* The archive just parsed was written back
CcoRebuilt == call.op = "CompactCO::rebuild"

\* C11: for every byte string the archive parser accepts, rebuilding the
\* parsed archive gives the same bytes: magic, 28-byte hash, then per entry
\* the name bytes, the flag byte, the u32 length and the payload, in order.
C11_CcoFrameRoundTrip ==
    /\ call = Call("CompactCO::new", "Ok") =>
           /\ CompactCO_rebuild(cco) = archive
           /\ archive = CcoHeader(cco.base_hash)
                        \o Flatten([i \in DOMAIN cco.entries |->
                               Frame(as_bytes(cco.entries[i].name),
                                     IF cco.entries[i].zlib THEN 193 ELSE 192,
                                     cco.entries[i].data)])
    /\ CcoRebuilt => out.bytes = archive

\* An accepted archive of two entries, one compressed under a name outside
\* ASCII and one raw, was written back
C11_Witness ==
    /\ CcoRebuilt
    /\ Len(cco.entries) = 2
    /\ \E i \in DOMAIN cco.entries :
          cco.entries[i].zlib /\ \E k \in DOMAIN cco.entries[i].name :
                                     cco.entries[i].name[k] >= 128
    /\ \E i \in DOMAIN cco.entries : ~cco.entries[i].zlib
    /\ out.bytes = archive

\* A mod function that replaces a base function: not '@'-named, name in
\* base_func
Overrides(b, f) == ~NameStartsWithAt(f.name) /\ f.name \in DOMAIN b.base_func

\* The mod functions that are appended, in mod order
RECURSIVE Additions(_, _)
Additions(b, fs) ==
    IF fs = <<>> THEN <<>>
    ELSE IF Overrides(b, fs[1]) THEN Additions(b, Tail(fs))
    ELSE <<fs[1]>> \o Additions(b, Tail(fs))

\* C12: after a successful apply_all_mods every non-'@' mod function whose
\* name is in base_func sits at that base index, which held a function of
\* that name before; every other mod function is appended after all
\* pre-existing functions in mod order; and every base function the mod
\* does not name keeps its index and bytecode.
C12_ApplyFunctionSet ==
    (Applied /\ call.err = "Ok") =>
        LET n == Len(old.functions)
            fs == mods.functions
        IN  /\ \A k \in DOMAIN fs :
                  Overrides(old, fs[k]) =>
                      /\ old.base_func[fs[k].name] \in 1..n
                      /\ old.functions[old.base_func[fs[k].name]].name = fs[k].name
                      /\ base.functions[old.base_func[fs[k].name]] = fs[k]
            /\ Len(base.functions) = n + Len(Additions(old, fs))
            /\ SubSeq(base.functions, n + 1, Len(base.functions)) = Additions(old, fs)
            /\ \A i \in 1..n :
                  (\A k \in DOMAIN fs : fs[k].name # old.functions[i].name) =>
                      base.functions[i] = old.functions[i]
            /\ base.base_func = old.base_func

\* The second of two successful calls replaced a base function and appended
\* a new function and a prologue, after the first call had appended one
C12_Witness ==
    /\ Applied /\ call.err = "Ok"
    /\ Len(history) = 2
    /\ Len(old.functions) = 4
    /\ Len(mods.functions) = 2
    /\ \E k \in DOMAIN mods.functions : Overrides(old, mods.functions[k])
    /\ \E k \in DOMAIN mods.functions : ~Overrides(old, mods.functions[k])
    /\ Len(base.functions) = 5

\* The next larger directory address after a, or the end of the image
NextLarger(a, addr_splits, end) ==
    LET later == {addr_splits[i] : i \in DOMAIN addr_splits} \cap ((a + 1)..end)
    IN  CHOOSE m \in later \cup {end} : \A x \in later \cup {end} : m <= x

\* What the directory entry at address a stands for: the name of the name
\* field at a (the parser has checked it against the directory's name) and
\* the image bytes from a up to the next larger directory address
EntryFunction(image, a, addr_splits) ==
    Function(from_utf16(extract_name(image, a).name).name,
             SubSeq(image, a + 1, NextLarger(a, addr_splits, Len(image))))

SplitByAddress(image, addr_splits, csx) ==
    /\ Len(csx.functions) = Len(addr_splits)
    /\ \A k \in DOMAIN addr_splits :
          /\ \E i \in DOMAIN csx.functions :
                csx.functions[i] = EntryFunction(image, addr_splits[k], addr_splits)
          /\ ~NameStartsWithAt(EntryFunction(image, addr_splits[k], addr_splits).name) =>
                /\ EntryFunction(image, addr_splits[k], addr_splits).name
                       \in DOMAIN csx.base_func
                /\ csx.functions[csx.base_func[
                       EntryFunction(image, addr_splits[k], addr_splits).name]]
                       = EntryFunction(image, addr_splits[k], addr_splits)

SplitOfSections(secs, csx) ==
    SplitByAddress(secs[TagImage],
                   ReadDirectory(secs[TagFunction], secs[TagImage]).addr_splits, csx)

\* C13: for every input the parser accepts, each directory entry, prologue
\* or named, yields one parsed function whose bytecode is the image bytes
\* from its address up to the next larger directory address (or the end of
\* the image) and whose name is the entry's, and base_func maps each
\* non-'@' name to the index of that function.
C13_ImageSplit ==
    call = Call("new", "Ok") =>
        SplitOfSections(ReadSections(Drop(input, 64), NoSections).secs, base)

\* Every function not named "@Initialize" starts with a well-formed name
\* field, so the unwrap in rebuild cannot fail
NamesExtractable(functions) ==
    \A i \in DOMAIN functions :
        functions[i].name # Initialize =>
            extract_name(functions[i].bytecode, 0).err = "Ok"

\* C14: rebuild never panics on an image reached through the public
\* operations: every function of the base that is not named "@Initialize"
\* has a bytecode that starts with a well-formed name field.
C14_RebuildTotal ==
    /\ call.op = "rebuild" => ~out.panic
    /\ BaseLive => NamesExtractable(base.functions)

====
